---------------------------- MODULE Spec2Model ----------------------------
(***************************************************************************)
(* A model of clairmeta/utils/xml.py: the xmltodict postprocessor          *)
(* post_parse_node, the attribute pass post_parse_attr, and the three      *)
(* entry points parse_xml, validate_xml and canonicalize_xml.              *)
(*                                                                         *)
(* Python strings are sequences of one-character strings, so that          *)
(* startswith, split, replace and format are computed, not assumed.        *)
(* Python values are tagged records:                                       *)
(*   [t |-> "none"]            None                                        *)
(*   [t |-> "str",  s |-> cs]  str                                         *)
(*   [t |-> "int",  v |-> n]   int                                         *)
(*   [t |-> "float", ip, fr]   float with a fractional part                *)
(*   [t |-> "map",  m |-> f]   dict (f a function on its keys)             *)
(*   [t |-> "seq",  q |-> l]   list                                        *)
(***************************************************************************)
EXTENDS Integers, Sequences, FiniteSets, TLC

VARIABLES
    pc,                   \* position of the sequential caller
    args,                 \* arguments of the call in progress / last made
    ret,                  \* outcome of the last call
    default_parent_dict,  \* the shared default of post_parse_attr's parent_dict
    file,                 \* what xml_path names on the file system
    log,                  \* messages given to get_log().error
    catalog,              \* <public> entries of xsd/catalog.xml
    environ,              \* os.environ, restricted to XML_CATALOG_FILES
    th,                   \* per-thread state of validate_xml
    written               \* the document made of the bytes canonicalize_xml returned

vars == <<pc, args, ret, default_parent_dict, file, log, catalog, environ, th, written>>

---------------------------------------------------------------------------
(* Bounds of the model *)

\* longest value text, in pieces of StrPieces
MaxParts == 3

\* longest list handed to post_parse_attr
MaxList == 2

\* most children of an element of a parsed document
MaxKids == 2

\* most <public> entries of the catalog
MaxCatalog == 2

\* callers of validate_xml
NThreads == 2

---------------------------------------------------------------------------
(* Python values *)

None == [t |-> "none"]
Str(cs) == [t |-> "str", s |-> cs]
IntV(n) == [t |-> "int", v |-> n]
FloatV(i, f) == [t |-> "float", ip |-> i, fr |-> f]
Dict(f) == [t |-> "map", m |-> f]
List(l) == [t |-> "seq", q |-> l]

IsStr(v) == v.t = "str"
IsDict(v) == v.t = "map"
IsList(v) == v.t = "seq"

EmptyMap == [k \in {} |-> None]
EmptyStr == Str(<<>>)

\* d[k] = v on a dict
DictSet(d, k, v) == Dict([x \in DOMAIN d.m \cup {k} |-> IF x = k THEN v ELSE d.m[x]])

---------------------------------------------------------------------------
(* Python str operations, on sequences of characters *)

\* s.startswith(p)
StartsWith(s, p) == Len(s) >= Len(p) /\ SubSeq(s, 1, Len(p)) = p

RECURSIVE ReplaceAll(_, _, _)
\* s.replace(old, new): every non-overlapping occurrence, leftmost first
ReplaceAll(s, old, new) ==
    IF s = <<>> THEN <<>>
    ELSE IF StartsWith(s, old)
         THEN new \o ReplaceAll(SubSeq(s, Len(old) + 1, Len(s)), old, new)
         ELSE <<Head(s)>> \o ReplaceAll(Tail(s), old, new)

RECURSIVE SplitFrom(_, _, _)
\* the parts of s.split(sep), cur being the part under construction
SplitFrom(s, sep, cur) ==
    IF s = <<>> THEN <<cur>>
    ELSE IF StartsWith(s, sep)
         THEN <<cur>> \o SplitFrom(SubSeq(s, Len(sep) + 1, Len(s)), sep, <<>>)
         ELSE SplitFrom(Tail(s), sep, Append(cur, Head(s)))

\* s.split(sep)
Split(s, sep) == SplitFrom(s, sep, <<>>)

---------------------------------------------------------------------------
(* clairmeta.utils.sys.try_convert_number *)

Digits == {"0", "1", "2", "3", "4", "5", "6", "7", "8", "9"}

DigitVal(c) ==
    CASE c = "0" -> 0 [] c = "1" -> 1 [] c = "2" -> 2 [] c = "3" -> 3
      [] c = "4" -> 4 [] c = "5" -> 5 [] c = "6" -> 6 [] c = "7" -> 7
      [] c = "8" -> 8 [] c = "9" -> 9

AllDigits(s) == \A i \in DOMAIN s : s[i] \in Digits

RECURSIVE DigitsVal(_)
\* the number a digit string writes ("" is 0)
DigitsVal(s) ==
    IF s = <<>> THEN 0
    ELSE 10 * DigitsVal(SubSeq(s, 1, Len(s) - 1)) + DigitVal(s[Len(s)])

\* the positions of "." in s
Dots(s) == {i \in DOMAIN s : s[i] = "."}

\* Strings are converted to numbers when they read as one: an integral
\* value becomes an int ('42.0' is 42), any other a float ('3.1415');
\* everything else, strings that are no number included, is returned as is.
try_convert_number(v) ==
    IF ~IsStr(v) THEN v
    ELSE IF v.s # <<>> /\ AllDigits(v.s) THEN IntV(DigitsVal(v.s))
    ELSE IF Cardinality(Dots(v.s)) = 1
         THEN LET d  == CHOOSE i \in Dots(v.s) : TRUE
                  ip == SubSeq(v.s, 1, d - 1)
                  fr == SubSeq(v.s, d + 1, Len(v.s))
              IN  IF AllDigits(ip) /\ AllDigits(fr) /\ Len(ip) + Len(fr) > 0
                  THEN IF DigitsVal(fr) = 0
                       THEN IntV(DigitsVal(ip))
                       ELSE FloatV(DigitsVal(ip), fr)
                  ELSE v
         ELSE v

---------------------------------------------------------------------------
(* post_parse_node *)

\* _DEFAULT_NS_SEP
NsSep == <<" ">>

\* "urn:uuid:"
UuidPrefix == <<"u", "r", "n", ":", "u", "u", "i", "d", ":">>

\* "__xmlns__"
XmlnsKey == <<"_", "_", "x", "m", "l", "n", "s", "_", "_">>

\* value.replace(prefix, "") on a value that starts with the prefix; a value
\* without startswith (AttributeError) is left alone
StripUuid(value) ==
    IF IsStr(value) /\ StartsWith(value.s, UuidPrefix)
    THEN Str(ReplaceAll(value.s, UuidPrefix, <<>>))
    ELSE value

\* found = sum(p.startswith(ns + ns_sep) for p in paths_prefix)
Found(path, ns) ==
    Cardinality({i \in DOMAIN path : StartsWith(path[i][1], ns \o NsSep)})

\* the marker is given whenever the namespace is on the path
IsNamespaceRoot_AnyDepth(path, ns) == Found(path, ns) >= 1

\* found == 1: the node is the only one of its namespace on the path
IsNamespaceRoot(path, ns) == Found(path, ns) = 1

\* None is kept
NoneToEmpty_Kept(value) == value

\* value = "" if value is None else value
NoneToEmpty(value) == IF value = None THEN EmptyStr ELSE value

post_parse_node(path, key, value) ==
    LET is_attribute == StartsWith(key, <<"@">>)
        tag_split    == Split(key, NsSep)
        split        == ~is_attribute /\ Len(tag_split) = 2
        ns           == tag_split[1]
        key1         == IF split THEN tag_split[2] ELSE key
        value1       == IF split /\ IsNamespaceRoot(path, ns) /\ IsDict(value)
                        THEN DictSet(value, XmlnsKey, Str(ns))
                        ELSE value
        value2       == StripUuid(value1)
        value3       == try_convert_number(value2)
        value4       == NoneToEmpty(value3)
    IN  [key |-> key1, value |-> value4]

---------------------------------------------------------------------------
(* post_parse_attr *)

\* "#text", xmltodict's cdata_key
TextKey == <<"#", "t", "e", "x", "t">>

\* "{}@{}".format(parent_key, k[1:])
AttribKey(parent_key, k) == parent_key \o <<"@">> \o Tail(k)

\* f with the key k removed
DropKey(f, k) == [x \in DOMAIN f \ {k} |-> f[x]]

\* a list item is handed the parent_dict of the list
ListItemParentIsNone_Shared == FALSE

\* The parent_dict argument of the call made for a list item (None): the item
\* then takes its own out_elem as parent_dict.
ListItemParentIsNone == TRUE

\* an empty out_elem is returned as it is
Collapse_KeepsEmpty(out, parent_key) ==
    IF TextKey \in DOMAIN out /\ Cardinality(DOMAIN out) = 1 THEN out[TextKey]
    ELSE IF TextKey \in DOMAIN out
         THEN Dict((parent_key :> out[TextKey]) @@ DropKey(out, TextKey))
         ELSE Dict(out)

\* The end of the dict branch: what out_elem becomes once its entries are in
Collapse(out, parent_key) ==
    LET out_len == Cardinality(DOMAIN out)
    IN  IF out_len = 0 THEN EmptyStr
        ELSE IF TextKey \in DOMAIN out /\ out_len = 1 THEN out[TextKey]
        ELSE IF TextKey \in DOMAIN out /\ out_len > 1
             THEN Dict((parent_key :> out[TextKey]) @@ DropKey(out, TextKey))
             ELSE Dict(out)

RECURSIVE post_parse_attr_rec(_, _, _)
\* One call of post_parse_attr.  own says that parent_dict was None, so that
\* parent_dict is out_elem.  The result is out_elem (out) and the entries the
\* call wrote into a parent_dict that is not its out_elem (up).
\* Element keys hold no "@", so the entries written for attributes never
\* meet an element's key and the order of in_elem.items() does not show.
post_parse_attr_rec(in_elem, own, parent_key) ==
    IF IsDict(in_elem)
    THEN LET m        == in_elem.m
             attrKeys == {k \in DOMAIN m : StartsWith(k, <<"@">>)}
             elemKeys == DOMAIN m \ attrKeys
             sub      == [k \in elemKeys |-> post_parse_attr_rec(m[k], FALSE, k)]
             attrs    == [x \in {AttribKey(parent_key, k) : k \in attrKeys} |->
                            m[CHOOSE k \in attrKeys : AttribKey(parent_key, k) = x]]
             below    == UNION {DOMAIN sub[k].up : k \in elemKeys}
             fromKids == [x \in below |->
                            sub[CHOOSE k \in elemKeys : x \in DOMAIN sub[k].up].up[x]]
             kids     == [k \in elemKeys |-> sub[k].out]
             out      == IF own THEN kids @@ fromKids @@ attrs
                                ELSE kids @@ fromKids
         IN  [out |-> Collapse(out, parent_key),
              up  |-> IF own THEN EmptyMap ELSE attrs]
    ELSE IF IsList(in_elem)
    THEN LET item(i) == post_parse_attr_rec(in_elem.q[i], ListItemParentIsNone,
                                            parent_key)
             upKeys  == UNION {DOMAIN item(i).up : i \in DOMAIN in_elem.q}
         IN  [out |-> List([i \in DOMAIN in_elem.q |-> item(i).out]),
              up  |-> [x \in upKeys |->
                         item(CHOOSE i \in DOMAIN in_elem.q :
                                  x \in DOMAIN item(i).up).up[x]]]
    ELSE [out |-> in_elem, up |-> EmptyMap]

\* post_parse_attr(in_elem): parent_dict is the default, parent_key is ""
post_parse_attr(in_elem) == post_parse_attr_rec(in_elem, FALSE, <<>>)

---------------------------------------------------------------------------
(* Inputs of the postprocessor *)

StrPieces == {UuidPrefix, <<"a">>, <<"4">>, <<".">>, <<"0">>}

RECURSIVE Texts(_)
\* the texts made of at most n pieces
Texts(n) ==
    IF n = 0 THEN {<<>>}
    ELSE Texts(n - 1) \cup {p \o s : p \in StrPieces, s \in Texts(n - 1)}

NodeKeys == {<<"k">>, <<"p", " ", "k">>, <<"@", "p", " ", "k">>, <<"#", "t", "e", "x", "t">>}

NodePaths ==
    { <<>>,
      << <<<<"p", " ", "k">>, None>> >>,
      << <<<<"p", " ", "r">>, None>>, <<<<"p", " ", "k">>, None>> >>,
      << <<<<"q", " ", "r">>, None>>, <<<<"p", " ", "k">>, None>> >> }

NodeValues ==
    {Str(s) : s \in Texts(MaxParts)} \cup {None, Dict(EmptyMap)}

---------------------------------------------------------------------------
(* The postprocessor called on its own *)

Idle == [kind |-> "idle"]
Returned(v) == [kind |-> "return", value |-> v]
Raised(e) == [kind |-> "raise", exc |-> e]

NoFile == [kind |-> "absent"]

\* XML_CATALOG_FILES is not in os.environ
Unset == "<unset>"

Threads == 1..NThreads

\* no caller has called validate_xml
NoCall ==
    [t \in Threads |->
        [pc |-> "idle", xsd_id |-> "", before |-> Unset, saved |-> Unset,
         exc |-> "", xsd_path |-> "", validated |-> FALSE, ret |-> Idle]]

InitRest ==
    /\ default_parent_dict = EmptyMap
    /\ file = NoFile
    /\ log = <<>>
    /\ catalog = <<>>
    /\ environ = None
    /\ th = NoCall
    /\ written = NoFile

InitNode ==
    /\ pc = "node"
    /\ args \in [path : NodePaths, key : NodeKeys, value : NodeValues]
    /\ ret = Idle
    /\ InitRest

CallPostParseNode ==
    /\ pc = "node"
    /\ ret' = Returned(post_parse_node(args.path, args.key, args.value))
    /\ pc' = "node_done"
    /\ UNCHANGED <<args, default_parent_dict, file, log, catalog, environ, th, written>>

NextNode == CallPostParseNode

SpecNode == InitNode /\ [][NextNode]_vars

---------------------------------------------------------------------------
(* Inputs of the attribute pass: what xmltodict builds, after post_parse_node *)

KeyA == <<"@", "a">>
KeyB == <<"@", "b">>
Elem == <<"E", "l", "e", "m">>
Child == <<"c">>

AttrVals == {IntV(1), Str(<<"t">>)}

\* elements without children: attributes, text, or both
Leaves ==
    {Dict(f) : f \in UNION {[D -> AttrVals] :
                              D \in SUBSET {KeyA, KeyB, TextKey} \ {{}}}}

\* members of a list of same-named elements
Items ==
    {Str(<<"t">>)} \cup
    {Dict(f) : f \in [{KeyA} -> AttrVals] \cup [{KeyA, TextKey} -> AttrVals]}

RECURSIVE ListsOf(_, _)
\* the non-empty lists of at most n members of S
ListsOf(S, n) ==
    IF n = 0 THEN {}
    ELSE {<<x>> : x \in S} \cup ListsOf(S, n - 1)
         \cup {Append(l, x) : l \in ListsOf(S, n - 1), x \in S}

Inner ==
    AttrVals \cup {EmptyStr} \cup Leaves \cup {List(l) : l \in ListsOf(Items, MaxList)}

Bases ==
    {EmptyMap, (KeyA :> IntV(1)), (TextKey :> Str(<<"t">>)),
     (KeyA :> IntV(1)) @@ (TextKey :> Str(<<"t">>))}

Mid == {Dict((Child :> x) @@ b) : x \in Inner, b \in Bases}

AttrInputs ==
    {Dict((Elem :> n)) : n \in Inner \cup Mid}
    \cup {Dict((KeyA :> v)) : v \in AttrVals}
    \cup {Dict((KeyA :> v) @@ (Elem :> Str(<<"t">>))) : v \in AttrVals}

---------------------------------------------------------------------------
(* The attribute pass called on its own *)

InitAttr ==
    /\ pc = "attr"
    /\ args \in [in_elem : AttrInputs]
    /\ ret = Idle
    /\ InitRest

\* post_parse_attr(in_elem); the entries written into parent_dict stay in the
\* default value of the parameter
CallPostParseAttr ==
    /\ pc = "attr"
    /\ LET r == post_parse_attr(args.in_elem)
       IN  /\ ret' = Returned(r.out)
           /\ default_parent_dict' = r.up @@ default_parent_dict
    /\ pc' = "attr_done"
    /\ UNCHANGED <<args, file, log, catalog, environ, th, written>>

NextAttr == CallPostParseAttr

SpecAttr == InitAttr /\ [][NextAttr]_vars

---------------------------------------------------------------------------
(* xmltodict.parse, as parse_xml calls it: process_namespaces=True,         *)
(* postprocessor=post_parse_node, dict_constructor=dict, and the defaults   *)
(* attr_prefix="@", cdata_key="#text", strip_whitespace=True.               *)
(* An element of a document is [uri, local, attrs, text, kids, tail]: its   *)
(* namespace name ("" for none), its local name, its attributes by name,    *)
(* the text before its first child, its children, the text that follows it. *)

El(uri, local, attrs, text, kids, tail) ==
    [uri |-> uri, local |-> local, attrs |-> attrs, text |-> text,
     kids |-> kids, tail |-> tail]

\* the name expat reports with namespace_separator=" "
ExpatName(uri, local) == IF uri = <<>> THEN local ELSE uri \o NsSep \o local

\* namespaces = {v: k for k, v in namespaces.items()}
Inverted(namespaces) ==
    [u \in {namespaces[a] : a \in DOMAIN namespaces} |->
        CHOOSE a \in DOMAIN namespaces : namespaces[a] = u]

\* xmltodict's _build_name: the namespace before the last separator is
\* replaced by its alias when the table has one
BuildName(full_name, nsmap) ==
    LET seps == {i \in DOMAIN full_name : SubSeq(full_name, i, i + Len(NsSep) - 1) = NsSep}
    IN  IF DOMAIN nsmap = {} \/ seps = {} THEN full_name
        ELSE LET i         == CHOOSE x \in seps : \A y \in seps : y <= x
                 namespace == SubSeq(full_name, 1, i - 1)
                 name      == SubSeq(full_name, i + Len(NsSep), Len(full_name))
                 short     == IF namespace \in DOMAIN nsmap THEN nsmap[namespace]
                                                           ELSE namespace
             IN  IF short = <<>> THEN name ELSE short \o NsSep \o name

Whitespace == {" ", "\n", "\t"}

RECURSIVE LStrip(_)
LStrip(s) == IF s # <<>> /\ Head(s) \in Whitespace THEN LStrip(Tail(s)) ELSE s

RECURSIVE RStrip(_)
RStrip(s) ==
    IF s # <<>> /\ s[Len(s)] \in Whitespace THEN RStrip(SubSeq(s, 1, Len(s) - 1)) ELSE s

\* data.strip()
StripWs(s) == RStrip(LStrip(s))

\* xmltodict's push_data, after its call of the postprocessor: pair is what
\* the postprocessor returned
PushData(item, pair, force_list) ==
    LET m == IF item = None THEN EmptyMap ELSE item.m
        k == pair.key
        v == IF k \in DOMAIN m
             THEN IF IsList(m[k]) THEN List(Append(m[k].q, pair.value))
                                  ELSE List(<<m[k], pair.value>>)
             ELSE IF k \in force_list THEN List(<<pair.value>>) ELSE pair.value
    IN  DictSet(Dict(m), k, v)

RECURSIVE TailsOf(_)
\* the character data that follows the children of an element
TailsOf(kids) == IF kids = <<>> THEN <<>> ELSE Head(kids).tail \o TailsOf(Tail(kids))

RECURSIVE XtdElement(_, _, _)
RECURSIVE XtdKids(_, _, _, _)

\* the item of an element once the pairs of its children kids are pushed
XtdKids(item, kids, path, cfg) ==
    IF kids = <<>> THEN item
    ELSE XtdKids(PushData(item, XtdElement(Head(kids), path, cfg), cfg.force_list),
                 Tail(kids), path, cfg)

\* startElement ... endElement of e below path: the (key, value) the
\* postprocessor returns for the element, which push_data adds to the parent
XtdElement(e, path, cfg) ==
    LET name    == BuildName(ExpatName(e.uri, e.local), cfg.nsmap)
        raw     == [k \in DOMAIN e.attrs |-> Str(e.attrs[k])]
        path1   == Append(path, <<name, IF DOMAIN e.attrs = {} THEN None ELSE Dict(raw)>>)
        entries == {post_parse_node(path1, <<"@">> \o BuildName(k, cfg.nsmap), raw[k]) :
                       k \in DOMAIN e.attrs}
        attrs   == IF cfg.xml_attribs /\ entries # {}
                   THEN Dict([x \in {p.key : p \in entries} |->
                                (CHOOSE p \in entries : p.key = x).value])
                   ELSE None
        item    == XtdKids(attrs, e.kids, path1, cfg)
        data    == StripWs(e.text \o TailsOf(e.kids))
    IN  IF item # None
        THEN post_parse_node(path1, name,
                 IF data # <<>>
                 THEN PushData(item, post_parse_node(path1, TextKey, Str(data)),
                               cfg.force_list)
                 ELSE item)
        ELSE post_parse_node(path1, name, IF data # <<>> THEN Str(data) ELSE None)

\* xmltodict.parse(readed_file, ...) on a document whose root element is root
xmltodict_parse(root, cfg) == PushData(None, XtdElement(root, <<>>, cfg), cfg.force_list)

---------------------------------------------------------------------------
(* parse_xml *)

\* the kinds of file that open() and xmltodict.parse accept
Parsable == {"xml"}
\* what os.path.isfile accepts
RegularFile == {"xml", "bytes", "malformed", "unreadable"}

NotAFile == "ValueError: not a file"
SyntaxError == "XMLSyntaxError"

\* the parse error leaves parse_xml
ParseFailure_Propagated(dpd) ==
    [ret |-> Raised(SyntaxError), log |-> <<>>, dpd |-> dpd]

\* except (Exception, ExpatError): the error is logged, and parse_xml ends
\* without a return statement
ParseFailure(dpd) ==
    [ret |-> Returned(None), log |-> <<"Error parsing XML">>, dpd |-> dpd]

parse_xml(f, a, dpd) ==
    IF f.kind \notin RegularFile
    THEN [ret |-> Raised(NotAFile), log |-> <<>>, dpd |-> dpd]
    ELSE IF f.kind \notin Parsable
    THEN ParseFailure(dpd)
    ELSE LET cfg      == [nsmap |-> Inverted(a.namespaces),
                          force_list |-> a.force_list,
                          xml_attribs |-> a.xml_attribs]
             xml_dict == xmltodict_parse(f.root, cfg)
             r        == post_parse_attr(xml_dict)
         IN  IF a.xml_attribs
             THEN [ret |-> Returned(r.out), log |-> <<>>, dpd |-> r.up @@ dpd]
             ELSE [ret |-> Returned(xml_dict), log |-> <<>>, dpd |-> dpd]

---------------------------------------------------------------------------
(* Documents given to parse_xml *)

U1 == <<"u">>
U2 == <<"v">>
AliasP == <<"p">>

NoAttrs == [k \in {} |-> <<>>]
AttrX == (<<"x">> :> <<"1">>)

PLeaves ==
    {El(u, <<"a">>, at, tx, <<>>, <<>>) :
        u \in {<<>>, U1, U2}, at \in {NoAttrs, AttrX}, tx \in {<<>>, <<"t">>, <<" ">>}}

PKids ==
    {El(u, <<"a">>, at, <<"t">>, <<>>, <<>>) : u \in {<<>>, U1}, at \in {NoAttrs, AttrX}}

PMids ==
    {El(u, <<"b">>, at, <<>>, ks, <<>>) :
        u \in {<<>>, U1, U2}, at \in {NoAttrs, AttrX}, ks \in ListsOf(PKids, MaxKids)}

PRoots ==
    {El(u, <<"r">>, NoAttrs, <<>>, <<m>>, <<>>) : u \in {<<>>, U1}, m \in PMids \cup PLeaves}

ParseFiles ==
    {[kind |-> "xml", root |-> r] : r \in PRoots}
    \cup {[kind |-> k] : k \in {"absent", "directory", "malformed", "unreadable"}}

ParseArgs ==
    [namespaces : {EmptyMap, (AliasP :> U1)},
     force_list : {{}, {<<"a">>}},
     xml_attribs : BOOLEAN]

InitParse ==
    /\ pc = "parse"
    /\ file \in ParseFiles
    /\ args \in ParseArgs
    /\ ret = Idle
    /\ default_parent_dict = EmptyMap
    /\ log = <<>>
    /\ catalog = <<>>
    /\ environ = None
    /\ th = NoCall
    /\ written = NoFile

CallParseXml ==
    /\ pc = "parse"
    /\ LET r == parse_xml(file, args, default_parent_dict)
       IN  /\ ret' = r.ret
           /\ log' = log \o r.log
           /\ default_parent_dict' = r.dpd
    /\ pc' = "parse_done"
    /\ UNCHANGED <<args, file, catalog, environ, th, written>>

NextParse == CallParseXml

SpecParse == InitParse /\ [][NextParse]_vars

---------------------------------------------------------------------------
(* validate_xml *)

\* clairmeta.utils.sys.modified_dict(os.environ, XML_CATALOG_FILES=...): on
\* entry the prior value is kept and the new one set
modified_dict_enter(env, value) == [saved |-> env, env |-> value]

\* on exit, however the block ended, the prior value is put back (the entry
\* is removed if there was none)
modified_dict_exit(env, saved) == saved

\* catalog_path
CatalogPath == "xsd/catalog.xml"

SchemaNotFound == "LookupError: XSD schema not found"
AmbiguousSchema == "LookupError: Multiple XSD schema found"

\* catalog.findall(".//ns:public[@publicId='{}']".format(xsd_id)): the
\* entries whose publicId is xsd_id (identifiers hold no quote)
Matches(cat, xsd_id) == {i \in DOMAIN cat : cat[i].publicId = xsd_id}

\* the first match is taken, however many there are
ResolveSchema_First(cat, xsd_id) ==
    LET match == Matches(cat, xsd_id)
    IN  IF match = {} THEN [err |-> SchemaNotFound, uri |-> ""]
        ELSE [err |-> "", uri |-> cat[CHOOSE i \in match : \A j \in match : i <= j].uri]

\* not match: "XSD schema not found"; len(match) > 1: "Multiple XSD schema
\* found"; otherwise match[0].attrib["uri"]
ResolveSchema(cat, xsd_id) ==
    LET match == Matches(cat, xsd_id)
    IN  IF match = {} THEN [err |-> SchemaNotFound, uri |-> ""]
        ELSE IF Cardinality(match) > 1 THEN [err |-> AmbiguousSchema, uri |-> ""]
        ELSE [err |-> "", uri |-> cat[CHOOSE i \in match : \A j \in match : i <= j].uri]

\* the lines of the with block: the override is set
Region == {"parse", "schema", "assert", "exit"}

Active(t) == th[t].pc \notin {"idle", "done"}
InRegion(t) == th[t].pc \in Region

Finish(t, outcome) ==
    th' = [th EXCEPT ![t].pc = "done", ![t].ret = outcome]

\* validate_xml(xml_path, xsd_id) is called: the isfile test
VCall(t) ==
    /\ pc = "validate"
    /\ th[t].pc = "idle"
    /\ \E id \in {"A", "B"} :
          th' = [th EXCEPT ![t].xsd_id = id,
                           ![t].before = environ,
                           ![t].pc = IF file.kind \in RegularFile THEN "lookup" ELSE "done",
                           ![t].ret = IF file.kind \in RegularFile THEN Idle
                                                                  ELSE Raised(NotAFile)]
    /\ UNCHANGED <<pc, args, ret, default_parent_dict, file, log, catalog, environ, written>>

\* the schema location is looked up in the catalog
VLookup(t) ==
    /\ th[t].pc = "lookup"
    /\ LET r == ResolveSchema(catalog, th[t].xsd_id)
       IN  IF r.err # ""
           THEN Finish(t, Raised(r.err))
           ELSE th' = [th EXCEPT ![t].pc = "enter", ![t].xsd_path = r.uri]
    /\ UNCHANGED <<pc, args, ret, default_parent_dict, file, log, catalog, environ, written>>

\* with modified_dict(os.environ, XML_CATALOG_FILES=catalog_path): entry
VEnter(t) ==
    /\ th[t].pc = "enter"
    /\ LET r == modified_dict_enter(environ, CatalogPath)
       IN  /\ environ' = r.env
           /\ th' = [th EXCEPT ![t].pc = "parse", ![t].saved = r.saved]
    /\ UNCHANGED <<pc, args, ret, default_parent_dict, file, log, catalog, written>>

\* doc = etree.parse(xml_path)
VParse(t) ==
    /\ th[t].pc = "parse"
    /\ th' = IF file.kind \in Parsable
             THEN [th EXCEPT ![t].pc = "schema"]
             ELSE [th EXCEPT ![t].pc = "exit", ![t].exc = SyntaxError]
    /\ UNCHANGED <<pc, args, ret, default_parent_dict, file, log, catalog, environ, written>>

\* schema = etree.XMLSchema(file=xsd_path): the schema compiles or not
VSchema(t) ==
    /\ th[t].pc = "schema"
    /\ \E ok \in BOOLEAN :
          th' = IF ok THEN [th EXCEPT ![t].pc = "assert"]
                      ELSE [th EXCEPT ![t].pc = "exit", ![t].exc = "XMLSchemaParseError"]
    /\ UNCHANGED <<pc, args, ret, default_parent_dict, file, log, catalog, environ, written>>

\* schema.assertValid(doc): the document conforms or not
VAssert(t) ==
    /\ th[t].pc = "assert"
    /\ \E valid \in BOOLEAN :
          th' = [th EXCEPT ![t].pc = "exit",
                           ![t].validated = TRUE,
                           ![t].exc = IF valid THEN "" ELSE "DocumentInvalid"]
    /\ UNCHANGED <<pc, args, ret, default_parent_dict, file, log, catalog, environ, written>>

\* the prior value is put back only when the block ends normally
VExit_NoCleanupOnError(t) ==
    /\ th[t].pc = "exit"
    /\ environ' = IF th[t].exc = "" THEN modified_dict_exit(environ, th[t].saved)
                                    ELSE environ
    /\ Finish(t, IF th[t].exc = "" THEN Returned(None) ELSE Raised(th[t].exc))
    /\ UNCHANGED <<pc, args, ret, default_parent_dict, file, log, catalog, written>>

\* the with block is left, normally or by the exception raised in it, which
\* then leaves validate_xml
VExit(t) ==
    /\ th[t].pc = "exit"
    /\ environ' = modified_dict_exit(environ, th[t].saved)
    /\ Finish(t, IF th[t].exc = "" THEN Returned(None) ELSE Raised(th[t].exc))
    /\ UNCHANGED <<pc, args, ret, default_parent_dict, file, log, catalog, written>>

\* a call made while no other call is in progress
VCallAlone(t) ==
    /\ \A u \in Threads : ~Active(u)
    /\ VCall(t)

CatalogEntries ==
    {[publicId |-> "A", uri |-> "x.xsd"], [publicId |-> "A", uri |-> "y.xsd"],
     [publicId |-> "B", uri |-> "z.xsd"]}

RECURSIVE Catalogs(_)
\* the catalogs of at most n entries, none twice
Catalogs(n) ==
    IF n = 0 THEN {<<>>}
    ELSE Catalogs(n - 1)
         \cup {Append(c, e) : c \in {d \in Catalogs(n - 1) : Len(d) = n - 1},
                              e \in CatalogEntries}

NoRepeat(c) == \A i, j \in DOMAIN c : i # j => c[i] # c[j]

ValidateFiles ==
    {[kind |-> "absent"], [kind |-> "malformed"],
     [kind |-> "xml", root |-> El(<<>>, <<"r">>, NoAttrs, <<>>, <<>>, <<>>)]}

InitValidate ==
    /\ pc = "validate"
    /\ args = None
    /\ ret = Idle
    /\ default_parent_dict = EmptyMap
    /\ file \in ValidateFiles
    /\ log = <<>>
    /\ catalog \in {c \in Catalogs(MaxCatalog) : NoRepeat(c)}
    /\ environ \in {Unset, "prior.xml"}
    /\ th = NoCall
    /\ written = NoFile

\* calls made one after the other
NextValidateSeq ==
    \E t \in Threads :
        \/ VCallAlone(t)
        \/ VLookup(t)
        \/ VEnter(t)
        \/ VParse(t)
        \/ VSchema(t)
        \/ VAssert(t)
        \/ VExit(t)

SpecValidateSeq == InitValidate /\ [][NextValidateSeq]_vars

\* calls made by threads that run in parallel
NextValidate ==
    \E t \in Threads :
        \/ VCall(t)
        \/ VLookup(t)
        \/ VEnter(t)
        \/ VParse(t)
        \/ VSchema(t)
        \/ VAssert(t)
        \/ VExit(t)

SpecValidate == InitValidate /\ [][NextValidate]_vars

---------------------------------------------------------------------------
(* canonicalize_xml *)
(* Bytes are sequences of characters, with the eight characters of         *)
(*  xmlns=" held as one.  The documents given to canonicalize_xml declare  *)
(* their namespaces as default namespaces and carry no attributes.         *)

\* the characters  xmlns="  (a space first)
XQ == " xmlns=\""
\* the character "
Q == "\""

\* r' xmlns=""'
EmptyNsDecl == <<XQ, Q>>

NameChars == {"a", "b", "r", "s"}

RootNotFound == "LookupError: Canonicalization fail, missing root node"

\* the tag of an element as lxml writes it: {uri}local
Clark(uri, local) == IF uri = <<>> THEN local ELSE <<"{">> \o uri \o <<"}">> \o local

RECURSIVE C14N(_, _)
RECURSIVE C14NKids(_, _)
\* doc.write_c14n(bindoc, with_comments=False) for the tree of e, d being the
\* default namespace in scope: a namespace is declared where it changes, and
\* xmlns="" where an element without namespace is below one that has one
C14N(e, d) ==
    <<"<">> \o e.local
        \o (IF e.uri # d THEN <<XQ>> \o e.uri \o <<Q>> ELSE <<>>)
        \o <<">">> \o e.text \o C14NKids(e.kids, e.uri)
        \o <<"<", "/">> \o e.local \o <<">">>
C14NKids(kids, d) ==
    IF kids = <<>> THEN <<>>
    ELSE C14N(Head(kids), d) \o Head(kids).tail \o C14NKids(Tail(kids), d)

\* b[i], or "" past the end
At(b, i) == IF i \in DOMAIN b THEN b[i] ELSE ""

RECURSIVE RunEnd(_, _, _)
\* the first position from i on that holds a character of stop (or the end)
RunEnd(b, i, stop) ==
    IF i > Len(b) \/ b[i] \in stop THEN i ELSE RunEnd(b, i + 1, stop)

RECURSIVE NameEnd(_, _)
\* the first position from i on that holds no character of a name
NameEnd(b, i) ==
    IF i > Len(b) \/ b[i] \notin NameChars THEN i ELSE NameEnd(b, i + 1)

Failed == [ok |-> FALSE]

RECURSIVE ParseElem(_, _, _)
RECURSIVE ParseKids(_, _, _, _)
\* the children that start at i, up to the end tag; acc are those read
ParseKids(b, i, d, acc) ==
    IF At(b, i) # "<" THEN Failed
    ELSE IF At(b, i + 1) = "/" THEN [ok |-> TRUE, kids |-> acc, next |-> i]
    ELSE LET c == ParseElem(b, i, d)
         IN  IF ~c.ok THEN Failed
             ELSE LET e == RunEnd(b, c.next, {"<"})
                  IN  ParseKids(b, e, d,
                            Append(acc, [c.node EXCEPT !.tail = SubSeq(b, c.next, e - 1)]))

\* the element that starts at i, d being the default namespace in scope
ParseElem(b, i, d) ==
    LET j     == NameEnd(b, i + 1)
        name  == SubSeq(b, i + 1, j - 1)
        decl  == At(b, j) = XQ
        q     == RunEnd(b, j + 1, {Q})
        uri   == IF decl THEN SubSeq(b, j + 1, q - 1) ELSE d
        g     == IF decl THEN q + 1 ELSE j
        e     == RunEnd(b, g + 1, {"<"})
        ks    == ParseKids(b, e, uri, <<>>)
        n     == ks.next
    IN  IF At(b, i) # "<" \/ name = <<>> \/ At(b, g) # ">" THEN Failed
        ELSE IF ~ks.ok THEN Failed
        ELSE IF SubSeq(b, n + 2, n + 1 + Len(name)) # name
                \/ At(b, n + 2 + Len(name)) # ">" THEN Failed
        ELSE [ok |-> TRUE,
              node |-> El(uri, name, NoAttrs, SubSeq(b, g + 1, e - 1), ks.kids, <<>>),
              next |-> n + 3 + Len(name)]

\* etree.parse of a file that holds the bytes b
ParseBytes(b) ==
    LET r == ParseElem(b, 1, <<>>)
    IN  IF r.ok /\ r.next = Len(b) + 1 THEN r ELSE Failed

\* etree.parse(xml_path)
ReadDoc(f) ==
    IF f.kind = "xml" THEN [ok |-> TRUE, node |-> f.root]
    ELSE IF f.kind = "bytes" THEN ParseBytes(f.b)
    ELSE Failed

RECURSIVE FindFirst(_, _)
\* the first element below (in document order) whose tag is tag, or None
FindFirst(kids, tag) ==
    IF kids = <<>> THEN None
    ELSE LET k == Head(kids)
             r == FindFirst(k.kids, tag)
         IN  IF Clark(k.uri, k.local) = tag THEN k
             ELSE IF r # None THEN r
             ELSE FindFirst(Tail(kids), tag)

RECURSIVE StripTree(_, _)
RECURSIVE StripKids(_, _, _, _)
\* the children rest of an element with the elements of tag removed, the
\* tail of each kept: it joins the tail of the child before it, or the text
\* of the element when there is none
StripKids(text, kept, rest, tag) ==
    IF rest = <<>> THEN [text |-> text, kids |-> kept]
    ELSE LET k == Head(rest)
         IN  IF Clark(k.uri, k.local) = tag
             THEN IF kept = <<>>
                  THEN StripKids(text \o k.tail, kept, Tail(rest), tag)
                  ELSE StripKids(text, [kept EXCEPT ![Len(kept)].tail = @ \o k.tail],
                                 Tail(rest), tag)
             ELSE StripKids(text, Append(kept, StripTree(k, tag)), Tail(rest), tag)
StripTree(e, tag) ==
    LET r == StripKids(e.text, <<>>, e.kids, tag)
    IN  [e EXCEPT !.text = r.text, !.kids = r.kids]

\* only the first child of tag is removed from the root
StripElements_OnlyFirst(e, tag) ==
    LET hits == {i \in DOMAIN e.kids : Clark(e.kids[i].uri, e.kids[i].local) = tag}
        h    == CHOOSE i \in hits : \A j \in hits : i <= j
    IN  IF hits = {} THEN e
        ELSE [e EXCEPT !.kids = SubSeq(e.kids, 1, h - 1)
                                  \o SubSeq(e.kids, h + 1, Len(e.kids))]

\* etree.strip_elements(doc, strip, with_tail=False): the root is never removed
StripElements(e, tag) == StripTree(e, tag)

\* if root: / if strip: (None and "" are false)
Truthy(v) == v # None /\ v # EmptyStr

\* re.sub(r' xmlns=""', "", ...)
RemoveEmptyNsDecl(b) == ReplaceAll(b, EmptyNsDecl, <<>>)

\* the tree canonicalize_xml serializes: re-rooted, then stripped
CanonTree(root, a) ==
    LET new_root == IF Truthy(a.root)
                    THEN FindFirst(root.kids, Clark(a.ns.s, a.root.s))
                    ELSE root
    IN  IF new_root = None THEN None
        ELSE IF Truthy(a.strip) THEN StripElements(new_root, a.strip.s)
        ELSE new_root

canonicalize_xml(f, a) ==
    IF f.kind \notin RegularFile THEN Raised(NotAFile)
    ELSE LET doc == ReadDoc(f)
         IN  IF ~doc.ok THEN Raised(SyntaxError)
             ELSE LET tree == CanonTree(doc.node, a)
                  IN  IF tree = None THEN Raised(RootNotFound)
                      ELSE Returned(RemoveEmptyNsDecl(C14N(tree, <<>>)))

---------------------------------------------------------------------------
(* Documents given to canonicalize_xml *)

CTexts == {<<>>, <<"t">>, <<XQ, Q>>, <<XQ, XQ, Q, Q>>}

CLeaves ==
    {El(u, l, NoAttrs, tx, <<>>, tl) :
        u \in {<<>>, U1}, l \in {<<"a">>, <<"s">>}, tx \in CTexts, tl \in {<<>>, <<"t">>}}

CKids ==
    {El(u, l, NoAttrs, <<>>, <<>>, <<"t">>) : u \in {<<>>, U1}, l \in {<<"a">>, <<"s">>}}

CMids ==
    {El(u, <<"a">>, NoAttrs, <<>>, ks, <<>>) : u \in {<<>>, U1}, ks \in ListsOf(CKids, MaxKids)}

CRoots ==
    {El(u, <<"r">>, NoAttrs, <<>>, ks, <<>>) :
        u \in {<<>>, U1},
        ks \in {<<m>> : m \in CMids \cup CLeaves} \cup ListsOf(CKids, MaxKids)}

CanonFiles ==
    {[kind |-> "xml", root |-> r] : r \in CRoots}
    \cup {[kind |-> k] : k \in {"absent", "malformed"}}

CanonArgs ==
    {[root |-> r, ns |-> IF r = None THEN None ELSE Str(U1), strip |-> st] :
        r \in {None, Str(<<"a">>)},
        st \in {None, Str(<<"s">>), Str(Clark(U1, <<"s">>))}}

InitCanon ==
    /\ pc = "canon"
    /\ file \in CanonFiles
    /\ args \in CanonArgs
    /\ ret = Idle
    /\ default_parent_dict = EmptyMap
    /\ log = <<>>
    /\ catalog = <<>>
    /\ environ = None
    /\ th = NoCall
    /\ written = NoFile

\* canonicalize_xml(xml_path, root, ns, strip)
CallCanonicalize ==
    /\ pc = "canon"
    /\ ret' = canonicalize_xml(file, args)
    /\ pc' = "canon_done"
    /\ UNCHANGED <<args, default_parent_dict, file, log, catalog, environ, th, written>>

\* the caller makes a document of the bytes returned
WriteOutput ==
    /\ pc = "canon_done"
    /\ ret.kind = "return"
    /\ written' = [kind |-> "bytes", b |-> ret.value]
    /\ pc' = "canon_again"
    /\ UNCHANGED <<args, ret, default_parent_dict, file, log, catalog, environ, th>>

\* canonicalize_xml on that document, with the same parameters
CallCanonicalizeAgain ==
    /\ pc = "canon_again"
    /\ ret' = canonicalize_xml(written, args)
    /\ pc' = "canon_done2"
    /\ UNCHANGED <<args, default_parent_dict, file, log, catalog, environ, th, written>>

NextCanon == CallCanonicalize \/ WriteOutput \/ CallCanonicalizeAgain

SpecCanon == InitCanon /\ [][NextCanon]_vars

---------------------------------------------------------------------------
(* The three operations on files, each called on its own *)

InitFiles == InitParse \/ InitValidate \/ InitCanon

NextFiles == NextParse \/ NextValidateSeq \/ NextCanon

SpecFiles == InitFiles /\ [][NextFiles]_vars

---------------------------------------------------------------------------
(* Claims about post_parse_node *)

\* the text left of s once one leading "urn:uuid:" is removed
WithoutLeadingPrefix(s) == SubSeq(s, Len(UuidPrefix) + 1, Len(s))

\* C3: for every string value that begins with urn:uuid:, post_parse_node
\* returns the input text with that one leading prefix removed and nothing
\* else altered: no other occurrence of urn:uuid: is removed.  (The number
\* conversion, which the postprocessor applies to every value afterwards, is
\* applied to the expected text as well.)
C3_OnlyLeadingPrefixRemoved ==
    (pc = "node_done" /\ IsStr(args.value) /\ StartsWith(args.value.s, UuidPrefix))
        => ret.value.value =
             try_convert_number(Str(WithoutLeadingPrefix(args.value.s)))

---------------------------------------------------------------------------
(* Claims about post_parse_attr *)

AttrKeysOf(d) == {k \in DOMAIN d.m : StartsWith(k, <<"@">>)}
ElemKeysOf(d) == DOMAIN d.m \ AttrKeysOf(d)

\* Elem with attributes a and b, no children and no text, alone in its parent
IsTwoAttrElem(in_elem) ==
    /\ IsDict(in_elem) /\ DOMAIN in_elem.m = {Elem}
    /\ IsDict(in_elem.m[Elem]) /\ DOMAIN in_elem.m[Elem].m = {KeyA, KeyB}

ElemAtA == AttribKey(Elem, KeyA)
ElemAtB == AttribKey(Elem, KeyB)

\* C4 as stated: for a parent mapping whose only entry is Elem with
\* attributes a and b, no children and no text, post_parse_attr returns
\* exactly {Elem@a, Elem@b}, with no entry left under the key Elem.
C4_NoResidualEntry ==
    (pc = "attr_done" /\ IsTwoAttrElem(args.in_elem))
        => ret.value = Dict((ElemAtA :> args.in_elem.m[Elem].m[KeyA])
                            @@ (ElemAtB :> args.in_elem.m[Elem].m[KeyB]))

\* C4 amended: for such a parent mapping post_parse_attr returns exactly
\* {Elem@a, Elem@b, Elem: ""}: the element keeps its entry, collapsed to the
\* empty string, and no mapping is left under Elem.
C4_ResidualEmptyString ==
    (pc = "attr_done" /\ IsTwoAttrElem(args.in_elem))
        => ret.value = Dict((ElemAtA :> args.in_elem.m[Elem].m[KeyA])
                            @@ (ElemAtB :> args.in_elem.m[Elem].m[KeyB])
                            @@ (Elem :> EmptyStr))

C4_Witness ==
    /\ pc = "attr_done"
    /\ IsTwoAttrElem(args.in_elem)
    /\ args.in_elem.m[Elem].m[KeyA] = IntV(1)
    /\ args.in_elem.m[Elem].m[KeyB] = Str(<<"t">>)

\* every attribute of node d (reached under key k) is an entry k@name of holder
HasAttrsOf(holder, d, k) ==
    /\ IsDict(holder)
    /\ \A a \in AttrKeysOf(d) :
          /\ AttribKey(k, a) \in DOMAIN holder.m
          /\ holder.m[AttribKey(k, a)] = d.m[a]

\* no attribute of node d (reached under key k) is an entry k@name of holder
LacksAttrsOf(holder, d, k) ==
    IsDict(holder) => \A a \in AttrKeysOf(d) : AttribKey(k, a) \notin DOMAIN holder.m

RECURSIVE AttrsPlaced(_, _, _)
\* Where the attributes of the mappings below inP went, outP being the
\* output mapping of inP.  A mapping that is the value of a key has them in
\* outP and not in its own output; a mapping that is a list member has them
\* in outP as well when inPlace is FALSE, and in its own output and not in
\* outP when inPlace is TRUE.
AttrsPlaced(inP, outP, inPlace) ==
    \A k \in ElemKeysOf(inP) :
        LET v == inP.m[k]
            o == outP.m[k]
        IN  IF IsDict(v)
            THEN /\ HasAttrsOf(outP, v, k)
                 /\ LacksAttrsOf(o, v, k)
                 /\ IsDict(o) => AttrsPlaced(v, o, inPlace)
            ELSE IF IsList(v)
            THEN \A i \in DOMAIN v.q :
                    IsDict(v.q[i]) =>
                      /\ IF inPlace
                         THEN HasAttrsOf(o.q[i], v.q[i], k)
                              /\ LacksAttrsOf(outP, v.q[i], k)
                         ELSE HasAttrsOf(outP, v.q[i], k)
                              /\ LacksAttrsOf(o.q[i], v.q[i], k)
                      /\ IsDict(o.q[i]) => AttrsPlaced(v.q[i], o.q[i], inPlace)
            ELSE TRUE

\* C10 as stated: for every mapping visited by post_parse_attr, members of a
\* sequence included, each entry @name is written into the mapping of the
\* enclosing parent under parentKey@name and never into the node's own
\* output mapping.
C10_AttrsAlwaysInParent ==
    (pc = "attr_done" /\ IsDict(ret.value))
        => AttrsPlaced(args.in_elem, ret.value, FALSE)

\* C10 amended: a mapping that is the value of a key of an enclosing mapping
\* has each entry @name written into that enclosing mapping under
\* parentKey@name and never into its own output; a mapping that is a member
\* of a sequence has it written into its own output mapping under
\* parentKey@name (in place) and not into the enclosing mapping; the
\* attributes of the mapping the call is made on go to the default
\* parent_dict under @name.
C10_AttrsInParentOrInPlace ==
    pc = "attr_done"
        => /\ IsDict(ret.value) => AttrsPlaced(args.in_elem, ret.value, TRUE)
           /\ HasAttrsOf(Dict(default_parent_dict), args.in_elem, <<>>)
           /\ LacksAttrsOf(ret.value, args.in_elem, <<>>)

C10_Witness ==
    /\ pc = "attr_done"
    /\ args.in_elem =
         Dict((Elem :> Dict((KeyA :> IntV(1))
                            @@ (Child :> List(<<Dict((KeyA :> Str(<<"t">>)))>>)))))
    /\ ret.value =
         Dict((ElemAtA :> IntV(1))
              @@ (Elem :> Dict((Child :>
                     List(<<Dict((AttribKey(Child, KeyA) :> Str(<<"t">>)))>>)))))

---------------------------------------------------------------------------
(* Claims about parse_xml *)

RECURSIVE WellTyped(_)
\* v and every value below it is a string, a number, a non-empty mapping or
\* a sequence: None appears nowhere, and no mapping is empty
WellTyped(v) ==
    CASE v.t = "map" -> /\ DOMAIN v.m # {}
                        /\ \A k \in DOMAIN v.m : WellTyped(v.m[k])
      [] v.t = "seq" -> \A i \in DOMAIN v.q : WellTyped(v.q[i])
      [] OTHER       -> v.t \in {"str", "int", "float"}

\* C1: for every XML tree that parses, the mapping parse_xml returns holds no
\* None at any depth: every value is a string, a number, a mapping or a
\* sequence; a null parsed value is the empty string, and a mapping left
\* empty by the attribute pass is the empty string.
C1_NoNullValue ==
    (pc = "parse_done" /\ file.kind = "xml")
        => /\ ret.kind = "return"
           /\ IsDict(ret.value)
           /\ WellTyped(ret.value)

\* a document whose only child element is empty: its parsed value is None
\* and the mapping returned holds the empty string for it
C1_Witness ==
    /\ pc = "parse_done"
    /\ file = [kind |-> "xml",
               root |-> El(<<>>, <<"r">>, NoAttrs, <<>>,
                           <<El(<<>>, <<"a">>, NoAttrs, <<>>, <<>>, <<>>)>>, <<>>)]
    /\ args.force_list = {}
    /\ ret = Returned(Dict((<<"r">> :> Dict((<<"a">> :> EmptyStr)))))

\* a document whose only child element has an attribute and nothing else:
\* the attribute pass empties its mapping, which becomes the empty string
C1_WitnessEmptied ==
    /\ pc = "parse_done"
    /\ file = [kind |-> "xml",
               root |-> El(<<>>, <<"r">>, NoAttrs, <<>>,
                           <<El(<<>>, <<"a">>, AttrX, <<>>, <<>>, <<>>)>>, <<>>)]
    /\ args.xml_attribs /\ args.force_list = {}
    /\ ret = Returned(Dict((<<"r">> :>
                 Dict((<<"a">> :> EmptyStr) @@ (<<"a", "@", "x">> :> IntV(1))))))

RECURSIVE PathsOf(_)
\* the elements of the document below e (e included), each as the sequence
\* of child positions that leads to it
PathsOf(e) ==
    {<<>>} \cup UNION {{<<i>> \o q : q \in PathsOf(e.kids[i])} : i \in DOMAIN e.kids}

RECURSIVE ElemAt(_, _)
ElemAt(e, q) == IF q = <<>> THEN e ELSE ElemAt(e.kids[Head(q)], Tail(q))

\* the key xmltodict builds for e and the parts post_parse_node splits it in
BuiltName(e) == BuildName(ExpatName(e.uri, e.local), Inverted(args.namespaces))
NsOf(e) == IF Len(Split(BuiltName(e), NsSep)) = 2 THEN Split(BuiltName(e), NsSep)[1] ELSE <<>>
BareKey(e) == IF Len(Split(BuiltName(e), NsSep)) = 2 THEN Split(BuiltName(e), NsSep)[2]
                                                     ELSE BuiltName(e)

\* one of several same-named siblings, or the only one
Member(v, n) == IF IsList(v) THEN v.q[n] ELSE v

RECURSIVE OutAt(_, _, _)
\* the node of the mapping made for the element at q below e, v being the
\* node made for e
OutAt(e, v, q) ==
    IF q = <<>> THEN v
    ELSE LET kid  == e.kids[Head(q)]
             rank == Cardinality({j \in 1..Head(q) : BareKey(e.kids[j]) = BareKey(kid)})
         IN  OutAt(kid, Member(v.m[BareKey(kid)], rank), Tail(q))

\* the node made for the element at q of the document
NodeOf(q) == OutAt(file.root, Member(ret.value.m[BareKey(file.root)], 1), q)

HasMarker(v, ns) == IsDict(v) /\ XmlnsKey \in DOMAIN v.m /\ v.m[XmlnsKey] = Str(ns)

RECURSIVE MarkerCount(_, _)
RECURSIVE MarkerSum(_, _, _)
\* the nodes at or below v that carry __xmlns__ = ns
MarkerCount(v, ns) ==
    IF IsDict(v)
    THEN (IF HasMarker(v, ns) THEN 1 ELSE 0) + MarkerSum(v.m, DOMAIN v.m, ns)
    ELSE IF IsList(v) THEN MarkerSum(v.q, DOMAIN v.q, ns)
    ELSE 0
MarkerSum(f, S, ns) ==
    IF S = {} THEN 0
    ELSE LET x == CHOOSE y \in S : TRUE
         IN  MarkerCount(f[x], ns) + MarkerSum(f, S \ {x}, ns)

IsProperPrefix(q, r) == Len(q) < Len(r) /\ SubSeq(r, 1, Len(q)) = q

\* the element at q has namespace ns and wraps every other element of ns,
\* of which there is at least one
WrapsNamespace(q, ns) ==
    LET inNs == {r \in PathsOf(file.root) : NsOf(ElemAt(file.root, r)) = ns}
    IN  /\ q \in inNs
        /\ inNs # {q}
        /\ \A r \in inNs \ {q} : IsProperPrefix(q, r)

Namespaces == {U1, U2, AliasP}

\* C2: when one element of namespace ns1 wraps N > 0 descendant elements of
\* the same namespace, exactly one node of the resulting mapping carries
\* __xmlns__ = ns1, and it is the node of that outermost element: no
\* descendant of the namespace carries the marker.
C2_OneMarkerAtOutermost ==
    (pc = "parse_done" /\ file.kind = "xml")
        => \A ns \in Namespaces : \A q \in PathsOf(file.root) :
              WrapsNamespace(q, ns)
                  => /\ MarkerCount(ret.value, ns) = 1
                     /\ HasMarker(NodeOf(q), ns)
                     /\ \A r \in PathsOf(file.root) \ {q} : ~HasMarker(NodeOf(r), ns)

\* the root, of namespace p, wraps an element of p that has a child of p
\* with an attribute: only the root's node carries the marker
C2_Witness ==
    /\ pc = "parse_done" /\ file.kind = "xml"
    /\ args.namespaces = (AliasP :> U1) /\ args.force_list = {} /\ ~args.xml_attribs
    /\ WrapsNamespace(<<>>, AliasP)
    /\ file.root.kids = <<El(U1, <<"b">>, NoAttrs, <<>>,
                             <<El(U1, <<"a">>, NoAttrs, <<"t">>, <<>>, <<>>)>>, <<>>)>>
    /\ ret = Returned(Dict((<<"r">> :>
                 Dict((XmlnsKey :> Str(AliasP))
                      @@ (<<"b">> :> Dict((<<"a">> :> Str(<<"t">>))))))))

---------------------------------------------------------------------------
(* Claims about validate_xml *)

Started(t) == th[t].pc # "idle"
\* the call has got past the catalog lookup
Resolved(t) == th[t].pc \in {"enter"} \cup Region \/ th[t].xsd_path # ""

\* C5: on an existing document validate_xml resolves a schema only when
\* exactly one catalog entry has the requested publicId; with none it fails
\* with the schema-not-found error, with two or more with the
\* ambiguous-schema error, and in both cases it picks no entry and never
\* reaches the validation step.
C5_ExactlyOneMatch ==
    pc = "validate" =>
      \A t \in Threads :
        LET n == Cardinality(Matches(catalog, th[t].xsd_id))
        IN  /\ Resolved(t) =>
                 /\ n = 1
                 /\ \E i \in Matches(catalog, th[t].xsd_id) : th[t].xsd_path = catalog[i].uri
            /\ (th[t].pc = "done" /\ file.kind \in RegularFile /\ n = 0) =>
                 /\ th[t].ret = Raised(SchemaNotFound)
                 /\ th[t].xsd_path = "" /\ ~th[t].validated
            /\ (th[t].pc = "done" /\ file.kind \in RegularFile /\ n > 1) =>
                 /\ th[t].ret = Raised(AmbiguousSchema)
                 /\ th[t].xsd_path = "" /\ ~th[t].validated
            /\ (Started(t) /\ file.kind \in RegularFile /\ n # 1) =>
                 th[t].pc \in {"lookup", "done"}

\* a call for an identifier that the catalog holds twice has failed
C5_Witness ==
    /\ pc = "validate"
    /\ \E t \in Threads :
          /\ th[t].pc = "done"
          /\ Cardinality(Matches(catalog, th[t].xsd_id)) = 2
          /\ th[t].ret = Raised(AmbiguousSchema)

\* C6: after a validate_xml call has ended, by any outcome, XML_CATALOG_FILES
\* has the value it had before the call (absent if it was absent); the
\* override is visible only between entering and leaving the validation
\* region.
C6_EnvironRestored ==
    pc = "validate" =>
      /\ \A t \in Threads : InRegion(t) => environ = CatalogPath
      /\ (\A t \in Threads : ~InRegion(t)) =>
            \A t \in Threads : Started(t) => environ = th[t].before

\* a call whose document does not parse has ended with the exception, after
\* the override was set, and the variable is absent again
C6_Witness ==
    /\ pc = "validate"
    /\ \E t \in Threads :
          /\ th[t].pc = "done"
          /\ th[t].ret = Raised("XMLSyntaxError")
          /\ th[t].before = Unset
          /\ environ = Unset

\* C7: when several validate_xml calls run in parallel, the scoped override
\* is mutually exclusive: at no time are two calls both between setting the
\* override and restoring the prior value.
C7_OverrideMutuallyExclusive ==
    pc = "validate" =>
      \A t, u \in Threads : (InRegion(t) /\ InRegion(u)) => t = u

---------------------------------------------------------------------------
(* Claims about canonicalize_xml *)

\* C8 as stated: canonicalize_xml is idempotent: for every document and
\* every choice of root, ns and strip for which the first call succeeds, the
\* call with the same parameters on a document made of the first call's
\* output succeeds and returns the same bytes.
C8_Idempotent ==
    pc = "canon_done2" => ret = Returned(written.b)

\* the serialization of the first call holds no  xmlns=""  for the cleanup
\* to remove
NothingToClean ==
    /\ file.kind = "xml"
    /\ CanonTree(file.root, args) # None
    /\ RemoveEmptyNsDecl(C14N(CanonTree(file.root, args), <<>>))
           = C14N(CanonTree(file.root, args), <<>>)

\* C8 amended: when no root is given and the canonical serialization of the
\* first call holds no  xmlns=""  (the cleanup removes nothing), the call
\* with the same parameters on a document made of the first call's output
\* succeeds and returns the same bytes, for every choice of strip.
C8_IdempotentWithoutRootAndCleanup ==
    (pc = "canon_done2" /\ ~Truthy(args.root) /\ NothingToClean)
        => ret = Returned(written.b)

\* two elements s, each followed by text, are stripped from a document in a
\* namespace; the second call returns the bytes of the first
C8_Witness ==
    /\ pc = "canon_done2"
    /\ ~Truthy(args.root) /\ args.strip = Str(Clark(U1, <<"s">>))
    /\ file.kind = "xml"
    /\ file.root = El(U1, <<"r">>, NoAttrs, <<>>,
                      <<El(U1, <<"s">>, NoAttrs, <<>>, <<>>, <<"t">>),
                        El(U1, <<"s">>, NoAttrs, <<>>, <<>>, <<"t">>)>>, <<>>)
    /\ NothingToClean
    /\ written.b = <<"<", "r", XQ, "u", Q, ">", "t", "t", "<", "/", "r", ">">>
    /\ ret = Returned(written.b)

---------------------------------------------------------------------------
(* Claims about failures *)

\* the call of validate_xml by t has ended
Ended(t) == th[t].pc = "done"

\* C9: parse_xml raises the not-a-file error when the path is not an
\* existing regular file; for an existing file, a failure while reading or
\* parsing is logged and parse_xml returns the absent result, no exception
\* leaving it; the failures of validate_xml and canonicalize_xml (not a
\* file, schema not found or ambiguous, syntax error, schema error, invalid
\* document, root not found) leave them as exceptions.
C9_FailureHandling ==
    /\ pc = "parse_done" =>
          /\ file.kind \notin RegularFile => ret = Raised(NotAFile) /\ log = <<>>
          /\ file.kind \in RegularFile => ret.kind = "return"
          /\ file.kind \in RegularFile \ Parsable => ret = Returned(None) /\ log # <<>>
    /\ \A t \in Threads : Ended(t) =>
          /\ file.kind \notin RegularFile => th[t].ret = Raised(NotAFile)
          /\ (file.kind \in RegularFile /\ Cardinality(Matches(catalog, th[t].xsd_id)) = 0)
                => th[t].ret = Raised(SchemaNotFound)
          /\ (file.kind \in RegularFile /\ Cardinality(Matches(catalog, th[t].xsd_id)) > 1)
                => th[t].ret = Raised(AmbiguousSchema)
          /\ (file.kind \in RegularFile \ Parsable
                /\ Cardinality(Matches(catalog, th[t].xsd_id)) = 1)
                => th[t].ret = Raised(SyntaxError)
          /\ th[t].exc # "" => th[t].ret = Raised(th[t].exc)
          /\ th[t].ret.kind = "return" => (th[t].validated /\ th[t].exc = "")
    /\ pc = "canon_done" =>
          /\ file.kind \notin RegularFile => ret = Raised(NotAFile)
          /\ file.kind \in RegularFile \ Parsable => ret = Raised(SyntaxError)
          /\ (file.kind \in Parsable /\ CanonTree(file.root, args) = None)
                => ret = Raised(RootNotFound)

\* parse_xml was given a file that is not XML: it returned the absent result
\* and logged the error
C9_Witness ==
    /\ pc = "parse_done"
    /\ file.kind = "malformed"
    /\ ret = Returned(None)
    /\ log = <<"Error parsing XML">>

\* validate_xml was given a file that is not XML: the syntax error left it
C9_WitnessValidate ==
    \E t \in Threads :
        /\ Ended(t)
        /\ file.kind = "malformed"
        /\ th[t].ret = Raised(SyntaxError)

\* canonicalize_xml was asked for a root that the document lacks
C9_WitnessCanon ==
    /\ pc = "canon_done"
    /\ file.kind = "xml"
    /\ ret = Raised(RootNotFound)

=============================================================================
